---- MODULE Spec2Model ----
(***************************************************************************)
(* A model of the str-array crate (src/src/lib.rs): the fixed-length UTF-8 *)
(* string Str<N>, its constructors from_utf8 / from_utf8_unchecked /       *)
(* try_new, the collector  impl FromIterator<char> for TryStr<N>, the      *)
(* accessors as_bytes / into_bytes / as_mut_str and the cross-length       *)
(* comparisons.  Bytes are integers 0..255, a char is its code point, a    *)
(* byte array [u8; N] is a sequence of length N.                           *)
(***************************************************************************)
EXTENDS Integers, Sequences, FiniteSets, TLC

\* ------------------------------------------------------------------ bounds
\* Largest static length N the model instantiates Str<N> with.
MaxN == 4
\* Longest finite char sequence handed to collect (a cycled iterator is
\* unbounded whatever this is).
MaxChars == 3
\* Most in-place ASCII case foldings applied to one value.
MaxFolds == 2
\* Longest string slice, in bytes, on either side of a comparison.
MaxCmpLen == 3

\* The bytes the input arrays are drawn from: ASCII NUL, the continuation
\* bytes 0x92 0x96 0x9F 0xA9, and the lead bytes 0xC2, 0xE0, 0xF0, 0xF4.
ByteAlphabet == {0, 146, 150, 159, 169, 194, 224, 240, 244}
\* The chars strings and iterators are drawn from: 'A', 'a', U+00E9,
\* U+20AC, U+1F496 (1, 1, 2, 3 and 4 bytes of UTF-8).
CharAlphabet == {65, 97, 233, 8364, 128150}

Min(x, y) == IF x <= y THEN x ELSE y

ByteArrays(n) == [1..n -> ByteAlphabet]
CharSeqs(k) == UNION {[1..n -> CharAlphabet] : n \in 0..k}

\* ------------------------------------------------- char::len_utf8 / encode
\* char::len_utf8, called at lib.rs:442.
len_utf8(ch) ==
    IF ch < 128 THEN 1
    ELSE IF ch < 2048 THEN 2
    ELSE IF ch < 65536 THEN 3
    ELSE 4

\* char::encode_utf8(..).as_bytes(), called at lib.rs:447.
encode_utf8(ch) ==
    IF ch < 128 THEN <<ch>>
    ELSE IF ch < 2048 THEN <<192 + (ch \div 64), 128 + (ch % 64)>>
    ELSE IF ch < 65536 THEN
        <<224 + (ch \div 4096), 128 + ((ch \div 64) % 64), 128 + (ch % 64)>>
    ELSE <<240 + (ch \div 262144), 128 + ((ch \div 4096) % 64),
           128 + ((ch \div 64) % 64), 128 + (ch % 64)>>

\* The bytes of a &str holding the chars cs (a &str is UTF-8 by type).
RECURSIVE StrBytes(_)
StrBytes(cs) ==
    IF cs = <<>> THEN <<>> ELSE encode_utf8(Head(cs)) \o StrBytes(Tail(cs))

\* Every &str of at most n bytes over the char alphabet.
StrSlices(n) == {b \in {StrBytes(cs) : cs \in CharSeqs(n)} : Len(b) <= n}

\* --------------------------------------------------------- UTF-8 validation
\* core::str::from_utf8 as run_utf8_validation calls it (lib.rs:462-468).
utf8_char_width(b) ==
    IF b < 128 THEN 1
    ELSE IF b >= 194 /\ b <= 223 THEN 2
    ELSE IF b >= 224 /\ b <= 239 THEN 3
    ELSE IF b >= 240 /\ b <= 244 THEN 4
    ELSE 0

IsCont(b) == b >= 128 /\ b <= 191

\* Mutant of Second3: any continuation byte after a 3-byte lead, so overlong
\* forms and surrogates pass.
Second3_any_continuation(first, b) == IsCont(b)

\* The second byte a 3-byte lead allows.
Second3(first, b) ==
    \/ first = 224 /\ b >= 160 /\ b <= 191
    \/ first >= 225 /\ first <= 236 /\ IsCont(b)
    \/ first = 237 /\ b >= 128 /\ b <= 159
    \/ first >= 238 /\ first <= 239 /\ IsCont(b)

\* The second byte a 4-byte lead allows.
Second4(first, b) ==
    \/ first = 240 /\ b >= 144 /\ b <= 191
    \/ first >= 241 /\ first <= 243 /\ IsCont(b)
    \/ first = 244 /\ b >= 128 /\ b <= 143

Utf8Ok == [tag |-> "Ok"]
\* str::Utf8Error: error_len 0 stands for None (input ended mid-char).
Utf8Error(valid_up_to, error_len) ==
    [tag |-> "Err", valid_up_to |-> valid_up_to, error_len |-> error_len]

\* The validation loop from byte offset index (0-based, as in Rust).
RECURSIVE ValidateFrom(_, _)
ValidateFrom(v, index) ==
    IF index >= Len(v) THEN Utf8Ok
    ELSE LET first == v[index + 1]
             w == utf8_char_width(first)
             len == Len(v)
         IN IF first < 128 THEN ValidateFrom(v, index + 1)
            ELSE IF w = 2 THEN
                IF index + 1 >= len THEN Utf8Error(index, 0)
                ELSE IF ~IsCont(v[index + 2]) THEN Utf8Error(index, 1)
                ELSE ValidateFrom(v, index + 2)
            ELSE IF w = 3 THEN
                IF index + 1 >= len THEN Utf8Error(index, 0)
                ELSE IF ~Second3(first, v[index + 2]) THEN Utf8Error(index, 1)
                ELSE IF index + 2 >= len THEN Utf8Error(index, 0)
                ELSE IF ~IsCont(v[index + 3]) THEN Utf8Error(index, 2)
                ELSE ValidateFrom(v, index + 3)
            ELSE IF w = 4 THEN
                IF index + 1 >= len THEN Utf8Error(index, 0)
                ELSE IF ~Second4(first, v[index + 2]) THEN Utf8Error(index, 1)
                ELSE IF index + 2 >= len THEN Utf8Error(index, 0)
                ELSE IF ~IsCont(v[index + 3]) THEN Utf8Error(index, 2)
                ELSE IF index + 3 >= len THEN Utf8Error(index, 0)
                ELSE IF ~IsCont(v[index + 4]) THEN Utf8Error(index, 3)
                ELSE ValidateFrom(v, index + 4)
            ELSE Utf8Error(index, 1)

run_utf8_validation(v) == ValidateFrom(v, 0)

\* ------------------------------------------------------------ return values
NoRet == [tag |-> "none"]
Ok(s) == [tag |-> "Ok", s |-> s]
Err(e) == [tag |-> "Err", e |-> e]
Panic(msg) == [tag |-> "panic", msg |-> msg]
\* TryStr::InvalidLength (lib.rs:293-296).
TryStrInvalidLength == [tag |-> "InvalidLength"]
\* struct InvalidLength (lib.rs:13-17).
InvalidLength(expected, actual) == [expected |-> expected, actual |-> actual]

NoStr == [tag |-> "none"]

\* usize::MAX (lib.rs:391) is 2^w - 1 for the pointer width w of the target.
\* The model takes w = 16, the narrowest pointer width Rust compiles for:
\* the value only has to be the largest usize, above every length here.
UsizeBits == 16
usize_MAX == 2 ^ UsizeBits - 1

\* Mutant of into_result: the error reports the capacity as the actual
\* length instead of the sentinel.
into_result_counted(t, n) ==
    IF t.tag = "Ok" THEN Ok(t.s) ELSE Err(InvalidLength(n, n))

\* TryStr::<n>::into_result (lib.rs:385-394).
into_result(t, n) ==
    IF t.tag = "Ok" THEN Ok(t.s)
    ELSE Err(InvalidLength(n, usize_MAX))

\* ------------------------------------------------------------------ Str<N>
\* Mutant of from_utf8_unchecked_internal: the array is left at its default
\* instead of taking v.
from_utf8_unchecked_internal_zeroed(v) ==
    [N |-> Len(v), v |-> [k \in 1..Len(v) |-> 0]]

\* Str { v }: the static length N is the length of the array (lib.rs:33-36,
\* 224-227).
from_utf8_unchecked_internal(v) == [N |-> Len(v), v |-> v]

\* Mutant of from_utf8: the validation result is ignored.
from_utf8_no_validation(v) == Ok([N |-> Len(v), v |-> v])

\* Str::from_utf8 (lib.rs:216-222).
from_utf8(v) ==
    LET r == run_utf8_validation(v)
    IN IF r.tag = "Err" THEN Err(r)
       ELSE Ok(from_utf8_unchecked_internal(v))

\* Mutant of from_utf8_unchecked: the debug branch is gone.
from_utf8_unchecked_never_checks(v, debug) == Ok([N |-> Len(v), v |-> v])

\* Str::from_utf8_unchecked (lib.rs:254-267); debug is cfg!(debug_assertions).
from_utf8_unchecked(v, debug) ==
    IF debug
    THEN LET r == from_utf8(v)
         IN IF r.tag = "Ok" THEN Ok(r.s) ELSE Panic("Invalid UTF-8")
    ELSE Ok(from_utf8_unchecked_internal(v))

\* Mutant of try_new: only too-short slices are refused, longer ones are cut
\* to n bytes.
try_new_truncating(str, n, debug) ==
    IF Len(str) < n THEN Err(InvalidLength(n, Len(str)))
    ELSE LET array == [k \in 1..n |-> str[k]]
         IN IF debug /\ run_utf8_validation(array).tag = "Err"
            THEN Panic("Invalid UTF-8")
            ELSE Ok([N |-> n, v |-> array])

\* Str::<n>::try_new (lib.rs:269-287) and the TryFrom<&str>-style
\* conversions that call it (lib.rs:491-570).
try_new(str, n, debug) ==
    IF Len(str) # n THEN Err(InvalidLength(n, Len(str)))
    ELSE LET array == [k \in 1..n |-> str[k]]
         IN from_utf8_unchecked(array, debug)

\* Str::into_bytes (lib.rs:93-97) and Str::as_bytes (lib.rs:115-119).
into_bytes(s) == s.v
as_bytes(s) == s.v

\* str::make_ascii_uppercase / make_ascii_lowercase applied to the view
\* as_mut_str returns (lib.rs:73-77, doc example lib.rs:66-71).
to_ascii_uppercase(b) == IF b >= 97 /\ b <= 122 THEN b - 32 ELSE b
to_ascii_lowercase(b) == IF b >= 65 /\ b <= 90 THEN b + 32 ELSE b
make_ascii_uppercase(s) ==
    [s EXCEPT !.v = [k \in 1..Len(s.v) |-> to_ascii_uppercase(s.v[k])]]
make_ascii_lowercase(s) ==
    [s EXCEPT !.v = [k \in 1..Len(s.v) |-> to_ascii_lowercase(s.v[k])]]

\* <str as PartialEq>::eq on the two views: same length and same bytes.
str_eq(x, y) == Len(x) = Len(y) /\ \A k \in 1..Len(x) : x[k] = y[k]

\* <str as PartialOrd>::partial_cmp: compare the common prefix bytewise,
\* then the lengths.
RECURSIVE str_cmp_from(_, _, _)
str_cmp_from(x, y, k) ==
    IF k > Min(Len(x), Len(y))
    THEN IF Len(x) < Len(y) THEN "Less"
         ELSE IF Len(x) > Len(y) THEN "Greater" ELSE "Equal"
    ELSE IF x[k] < y[k] THEN "Less"
    ELSE IF x[k] > y[k] THEN "Greater"
    ELSE str_cmp_from(x, y, k + 1)

\* impl PartialEq<Str<T>> for Str<N> (lib.rs:689-694).
eq(a, b) == b.N = a.N /\ str_eq(a.v, b.v)

\* Mutant of partial_cmp: the static lengths are compared before the text.
partial_cmp_length_first(a, b) ==
    IF a.N < b.N THEN "Less"
    ELSE IF a.N > b.N THEN "Greater"
    ELSE str_cmp_from(a.v, b.v, 1)

\* impl PartialOrd<Str<T>> for Str<N> (lib.rs:677-682).
partial_cmp(a, b) == str_cmp_from(a.v, b.v, 1)

\* ------------------------------------------------------------------- state
VARIABLES
    debug_assertions, \* cfg!(debug_assertions) of the build
    N,                \* the static length of the Str<N> under construction
    input,            \* what the caller passes in
    pc,               \* "ready", "from_iter" (inside the collect loop),
                      \* "panicked" (the thread unwound) or "ub"
    ret,              \* the value each finished call returned
    self,             \* the live Str<N> the safe constructors produced
    folds,            \* in-place case foldings applied to self so far
    other,            \* a second value, a Str<T>, for the comparisons
    out,              \* from_iter: let mut out = [0u8; N]
    i,                \* from_iter: let mut i = 0
    iter,             \* from_iter: items the iterator has yielded so far
    pulled            \* from_iter: the chars the loop body received

vars == <<debug_assertions, N, input, pc, ret, self, folds, other,
          out, i, iter, pulled>>

Calls == {"from_utf8", "from_utf8_unchecked", "try_new", "from_iter",
          "into_result", "as_bytes", "into_bytes", "from_utf8_into_bytes",
          "eq", "partial_cmp"}

collector == <<out, i, iter, pulled>>

\* A byte array for the byte constructors.
InitBytes ==
    /\ N \in 0..MaxN
    /\ input \in [kind : {"bytes"}, v : ByteArrays(N)]

\* A string slice of any length for try_new.
InitStr ==
    /\ N \in 0..MaxN
    /\ input \in [kind : {"str"}, s : StrSlices(MaxN + 1)]

\* A char iterator for collect: a finite sequence, or that sequence cycled
\* for ever.
InitChars ==
    /\ N \in 0..MaxN
    /\ input \in {c \in [kind : {"chars"}, chars : CharSeqs(MaxChars),
                         cycle : BOOLEAN] : c.cycle => c.chars # <<>>}

\* Two string slices, each built into a Str of its own length.
InitPair ==
    /\ input \in [kind : {"pair"}, s : StrSlices(MaxCmpLen),
                       t : StrSlices(MaxCmpLen)]
    /\ N = Len(input.s)

Init ==
    /\ debug_assertions \in BOOLEAN
    /\ \/ InitBytes
       \/ InitStr
       \/ InitChars
       \/ InitPair
    /\ pc = "ready"
    /\ ret = [c \in Calls |-> NoRet]
    /\ self = NoStr
    /\ folds = 0
    /\ other = NoStr
    /\ out = <<>>
    /\ i = 0
    /\ iter = 0
    /\ pulled = <<>>

\* The caller keeps the value of a successful constructor as self.
Keep(r) == IF r.tag = "Ok" THEN r.s ELSE self
\* A panic unwinds the calling thread.
After(r) == IF r.tag = "panic" THEN "panicked" ELSE "ready"

\* --------------------------------------------------------- byte constructors
\* let r = Str::<N>::from_utf8(input.v)
FromUtf8 ==
    /\ pc = "ready"
    /\ input.kind = "bytes"
    /\ ret["from_utf8"] = NoRet
    /\ LET r == from_utf8(input.v)
       IN /\ ret' = [ret EXCEPT !["from_utf8"] = r]
          /\ self' = Keep(r)
    /\ pc' = "ready"
    /\ UNCHANGED <<debug_assertions, N, input, folds, other, collector>>

\* let r = unsafe { Str::<N>::from_utf8_unchecked(input.v) }.  With the
\* checks compiled out and invalid bytes the value exists but any read of it
\* is undefined: the model stops there ("ub").
FromUtf8Unchecked ==
    /\ pc = "ready"
    /\ input.kind = "bytes"
    /\ ret["from_utf8_unchecked"] = NoRet
    /\ LET r == from_utf8_unchecked(input.v, debug_assertions)
       IN /\ ret' = [ret EXCEPT !["from_utf8_unchecked"] = r]
          /\ pc' = IF r.tag = "panic" THEN "panicked"
                   ELSE IF run_utf8_validation(input.v).tag = "Err" THEN "ub"
                   ELSE "ready"
    /\ UNCHANGED <<debug_assertions, N, input, self, folds, other, collector>>

\* let r = Str::<N>::try_new(input.s)   (or Str::<N>::try_from(input.s))
TryNew ==
    /\ pc = "ready"
    /\ input.kind \in {"str", "pair"}
    /\ ret["try_new"] = NoRet
    /\ LET r == try_new(input.s, N, debug_assertions)
       IN /\ ret' = [ret EXCEPT !["try_new"] = r]
          /\ self' = Keep(r)
          /\ pc' = After(r)
    /\ UNCHANGED <<debug_assertions, N, input, folds, other, collector>>

\* The second value of a comparison: Str::<T>::try_new(input.t), T its length.
TryNewOther ==
    /\ pc = "ready"
    /\ input.kind = "pair"
    /\ self # NoStr
    /\ other = NoStr
    /\ LET r == try_new(input.t, Len(input.t), debug_assertions)
       IN /\ r.tag = "Ok"
          /\ other' = r.s
    /\ UNCHANGED <<debug_assertions, N, input, pc, ret, self, folds, collector>>

\* ----------------------------------------------------------------- accessors
\* self.as_mut_str().make_ascii_uppercase()
MakeAsciiUppercase ==
    /\ pc = "ready"
    /\ input.kind # "pair"
    /\ self # NoStr
    /\ ret["as_bytes"] = NoRet
    /\ ret["into_bytes"] = NoRet
    /\ folds < MaxFolds
    /\ self' = make_ascii_uppercase(self)
    /\ folds' = folds + 1
    /\ UNCHANGED <<debug_assertions, N, input, pc, ret, other, collector>>

\* self.as_mut_str().make_ascii_lowercase()
MakeAsciiLowercase ==
    /\ pc = "ready"
    /\ input.kind # "pair"
    /\ self # NoStr
    /\ ret["as_bytes"] = NoRet
    /\ ret["into_bytes"] = NoRet
    /\ folds < MaxFolds
    /\ self' = make_ascii_lowercase(self)
    /\ folds' = folds + 1
    /\ UNCHANGED <<debug_assertions, N, input, pc, ret, other, collector>>

\* What an accessor call returned, with the value and fold count it saw.
Seen(b) == [tag |-> "bytes", v |-> b, of |-> self, folds |-> folds]

\* let b = self.as_bytes()
AsBytes ==
    /\ pc = "ready"
    /\ input.kind # "pair"
    /\ self # NoStr
    /\ ret["as_bytes"] = NoRet
    /\ ret["into_bytes"] = NoRet
    /\ ret' = [ret EXCEPT !["as_bytes"] = Seen(as_bytes(self))]
    /\ UNCHANGED <<debug_assertions, N, input, pc, self, folds, other, collector>>

\* let b = self.into_bytes()   (this consumes self: the caller folds and
\* borrows before it, not after)
IntoBytes ==
    /\ pc = "ready"
    /\ input.kind # "pair"
    /\ self # NoStr
    /\ ret["into_bytes"] = NoRet
    /\ ret' = [ret EXCEPT !["into_bytes"] = Seen(into_bytes(self))]
    /\ UNCHANGED <<debug_assertions, N, input, pc, self, folds, other, collector>>

\* let r = Str::<N>::from_utf8(b), b the array into_bytes returned
FromUtf8IntoBytes ==
    /\ pc = "ready"
    /\ ret["into_bytes"] # NoRet
    /\ ret["from_utf8_into_bytes"] = NoRet
    /\ ret' = [ret EXCEPT !["from_utf8_into_bytes"] =
                              from_utf8(ret["into_bytes"].v)]
    /\ UNCHANGED <<debug_assertions, N, input, pc, self, folds, other, collector>>

\* --------------------------------------------------------------- comparisons
\* let r = (self == other)
Eq ==
    /\ pc = "ready"
    /\ self # NoStr
    /\ other # NoStr
    /\ ret["eq"] = NoRet
    /\ ret' = [ret EXCEPT !["eq"] =
                 [tag |-> "bool", b |-> eq(self, other),
                  lhs |-> self, rhs |-> other]]
    /\ UNCHANGED <<debug_assertions, N, input, pc, self, folds, other, collector>>

\* let r = self.partial_cmp(&other)
PartialCmp ==
    /\ pc = "ready"
    /\ self # NoStr
    /\ other # NoStr
    /\ ret["partial_cmp"] = NoRet
    /\ ret' = [ret EXCEPT !["partial_cmp"] =
                 [tag |-> "Some", ord |-> partial_cmp(self, other),
                  lhs |-> self, rhs |-> other]]
    /\ UNCHANGED <<debug_assertions, N, input, pc, self, folds, other, collector>>

\* ------------------------------------------- FromIterator<char> for TryStr<N>
\* The iterator the caller hands to collect: input.chars once, or cycled.
HasNext == iter < Len(input.chars) \/ input.cycle
NextItem == input.chars[(iter % Len(input.chars)) + 1]

\* Mutant of loop_body: every char is stored as the single byte ch as u8.
loop_body_one_byte(o, idx, ch, n) ==
    IF idx = n THEN [tag |-> "return", out |-> o, i |-> idx]
    ELSE [tag |-> "continue", i |-> idx + len_utf8(ch),
          out |-> [o EXCEPT ![idx + 1] = ch % 256]]

\* Mutant of loop_body: the test i == N is missing, so a char arriving at a
\* full array is written past its end (an index panic).
loop_body_no_full_check(o, idx, ch, n) ==
    LET len == len_utf8(ch)
    IN IF idx + len > n
       THEN [tag |-> "panic", out |-> o, i |-> idx,
             msg |-> "index out of bounds"]
       ELSE [tag |-> "continue", i |-> idx + len,
             out |-> [k \in 1..n |->
                        IF k > idx /\ k <= idx + len
                        THEN encode_utf8(ch)[k - idx] ELSE o[k]]]

\* Mutant of loop_body: a char that does not fit is cut to the room left
\* (the range is clamped to the end of out) instead of being refused.
loop_body_clamped(o, idx, ch, n) ==
    IF idx = n THEN [tag |-> "return", out |-> o, i |-> idx]
    ELSE LET bytes == encode_utf8(ch)
             end == Min(idx + Len(bytes), n)
         IN [tag |-> "continue", i |-> end,
             out |-> [k \in 1..n |->
                        IF k > idx /\ k <= end THEN bytes[k - idx] ELSE o[k]]]

\* Mutant of loop_body: the cursor is not advanced (i += len is missing).
loop_body_no_advance(o, idx, ch, n) ==
    IF idx = n THEN [tag |-> "return", out |-> o, i |-> idx]
    ELSE LET bytes == encode_utf8(ch)
         IN IF idx + Len(bytes) > n
            THEN [tag |-> "panic", out |-> o, i |-> idx,
                  msg |-> "range end index out of range"]
            ELSE [tag |-> "continue", i |-> idx,
                  out |-> [k \in 1..n |->
                             IF k > idx /\ k <= idx + Len(bytes)
                             THEN bytes[k - idx] ELSE o[k]]]

\* One pass through the body of the for loop (lib.rs:439-452) with the char
\* ch, the array o and the cursor idx: return TryStr::InvalidLength, go on
\* with the array and cursor updated, or panic (the assert_eq!, or the range
\* idx..idx+len reaching past the end of out).
loop_body(o, idx, ch, n) ==
    IF idx = n THEN [tag |-> "return", out |-> o, i |-> idx]
    ELSE LET len == len_utf8(ch)
         IN IF len = 1
            THEN [tag |-> "continue", i |-> idx + len,
                  out |-> [o EXCEPT ![idx + 1] = ch % 256]]
            ELSE LET bytes == encode_utf8(ch)
                 IN IF Len(bytes) # len
                    THEN [tag |-> "panic", out |-> o, i |-> idx,
                          msg |-> "assertion failed"]
                    ELSE IF idx + len > n
                    THEN [tag |-> "panic", out |-> o, i |-> idx,
                          msg |-> "range end index out of range"]
                    ELSE [tag |-> "continue", i |-> idx + len,
                          out |-> [k \in 1..n |->
                                     IF k > idx /\ k <= idx + len
                                     THEN bytes[k - idx] ELSE o[k]]]

\* Mutant of after_loop: the test i != N is missing, so a short input gives
\* a buffer padded with NUL bytes.
after_loop_no_length_check(o, idx, n, debug) == from_utf8_unchecked(o, debug)

\* The code after the loop (lib.rs:454-458).
after_loop(o, idx, n, debug) ==
    IF idx # n THEN TryStrInvalidLength
    ELSE from_utf8_unchecked(o, debug)

\* let mut out = [0u8; N]; let mut i = 0; iter.into_iter()  (lib.rs:435-437)
FromIterBegin ==
    /\ pc = "ready"
    /\ input.kind = "chars"
    /\ ret["from_iter"] = NoRet
    /\ out' = [k \in 1..N |-> 0]
    /\ i' = 0
    /\ iter' = 0
    /\ pulled' = <<>>
    /\ pc' = "from_iter"
    /\ UNCHANGED <<debug_assertions, N, input, ret, self, folds, other>>

\* The iterator yields a char and the loop body runs on it.  (The model
\* follows a collection for at most MaxN + 2 chars, one more than any
\* TryStr<N> of the model may take.)
FromIterNext ==
    /\ pc = "from_iter"
    /\ HasNext
    /\ iter <= MaxN + 1
    /\ LET ch == NextItem
           b == loop_body(out, i, ch, N)
       IN /\ iter' = iter + 1
          /\ pulled' = Append(pulled, ch)
          /\ out' = b.out
          /\ i' = b.i
          /\ ret' = IF b.tag = "return"
                    THEN [ret EXCEPT !["from_iter"] = TryStrInvalidLength]
                    ELSE IF b.tag = "panic"
                    THEN [ret EXCEPT !["from_iter"] = Panic(b.msg)]
                    ELSE ret
          /\ pc' = IF b.tag = "return" THEN "ready"
                   ELSE IF b.tag = "panic" THEN "panicked"
                   ELSE "from_iter"
    /\ UNCHANGED <<debug_assertions, N, input, self, folds, other>>

\* The iterator is exhausted: the code after the loop runs.
FromIterEnd ==
    /\ pc = "from_iter"
    /\ ~HasNext
    /\ LET r == after_loop(out, i, N, debug_assertions)
       IN /\ ret' = [ret EXCEPT !["from_iter"] = r]
          /\ self' = Keep(r)
          /\ pc' = After(r)
    /\ UNCHANGED <<debug_assertions, N, input, folds, other, collector>>

\* let r = t.into_result(), t the TryStr<N> collect returned
IntoResult ==
    /\ pc = "ready"
    /\ ret["from_iter"].tag \in {"Ok", "InvalidLength"}
    /\ ret["into_result"] = NoRet
    /\ ret' = [ret EXCEPT !["into_result"] = into_result(ret["from_iter"], N)]
    /\ UNCHANGED <<debug_assertions, N, input, pc, self, folds, other, collector>>

\* -------------------------------------------------------------- specification
Next ==
    \/ FromUtf8
    \/ FromUtf8Unchecked
    \/ TryNew
    \/ TryNewOther
    \/ MakeAsciiUppercase
    \/ MakeAsciiLowercase
    \/ AsBytes
    \/ IntoBytes
    \/ FromUtf8IntoBytes
    \/ Eq
    \/ PartialCmp
    \/ FromIterBegin
    \/ FromIterNext
    \/ FromIterEnd
    \/ IntoResult

Spec == Init /\ [][Next]_vars

\* One call of collect, run to its end: from_iter has no suspension point, so
\* once entered its loop keeps stepping and the code after the loop runs.
InitCollect == Init /\ input.kind = "chars"

NextCollect ==
    \/ FromIterBegin
    \/ FromIterNext
    \/ FromIterEnd

CollectSpec ==
    /\ InitCollect
    /\ [][NextCollect]_vars
    /\ WF_vars(FromIterNext)
    /\ WF_vars(FromIterEnd)

\* ------------------------------------------------- what the claims speak of
\* UTF-8 by definition, apart from the validator: a byte string is well
\* formed when it splits into chunks of 1 to 4 bytes, each the encoding of
\* one Unicode scalar value.
IsScalarValue(cp) == (cp >= 0 /\ cp <= 55295) \/ (cp >= 57344 /\ cp <= 1114111)

DecodeChunk(c) ==
    IF Len(c) = 1 THEN c[1]
    ELSE IF Len(c) = 2 THEN (c[1] - 192) * 64 + (c[2] - 128)
    ELSE IF Len(c) = 3
    THEN (c[1] - 224) * 4096 + (c[2] - 128) * 64 + (c[3] - 128)
    ELSE (c[1] - 240) * 262144 + (c[2] - 128) * 4096
         + (c[3] - 128) * 64 + (c[4] - 128)

EncodesOneChar(c) ==
    LET cp == DecodeChunk(c)
    IN IsScalarValue(cp) /\ encode_utf8(cp) = c

RECURSIVE WellFormedUtf8(_)
WellFormedUtf8(b) ==
    \/ b = <<>>
    \/ \E k \in 1..Min(4, Len(b)) :
          /\ EncodesOneChar(SubSeq(b, 1, k))
          /\ WellFormedUtf8(SubSeq(b, k + 1, Len(b)))

\* k is the length of the longest well-formed prefix of v.
IsMaxValidPrefix(v, k) ==
    /\ k \in 0..Len(v)
    /\ WellFormedUtf8(SubSeq(v, 1, k))
    /\ \A j \in (k + 1)..Len(v) : ~WellFormedUtf8(SubSeq(v, 1, j))

\* The sum of the encoded lengths of the chars cs.
RECURSIVE EncodedLen(_)
EncodedLen(cs) ==
    IF cs = <<>> THEN 0 ELSE len_utf8(Head(cs)) + EncodedLen(Tail(cs))

Front(s) == SubSeq(s, 1, Len(s) - 1)
HasMultiByte(b) == \E k \in 1..Len(b) : b[k] >= 128

\* Lexicographic order of byte strings, by definition: x precedes y when x
\* is a proper prefix of y, or at the first place they differ x is smaller.
LexLess(x, y) ==
    \E k \in 0..Min(Len(x), Len(y)) :
        /\ \A j \in 1..k : x[j] = y[j]
        /\ \/ k = Len(x) /\ k < Len(y)
           \/ k < Len(x) /\ k < Len(y) /\ x[k + 1] < y[k + 1]

LexOrder(x, y) ==
    IF LexLess(x, y) THEN "Less"
    ELSE IF LexLess(y, x) THEN "Greater" ELSE "Equal"

\* -------------------------------------------------------------------- claims
\* C1: every Str<N> the safe constructors produce (from_utf8, try_new,
\* collecting chars and taking TryStr::Ok), also after any number of in-place
\* ASCII case foldings, holds exactly N bytes that are well-formed UTF-8; so
\* does the second operand of a comparison, for its own length.
C1_StrIsValidUtf8 ==
    /\ self # NoStr =>
          /\ self.N = N
          /\ Len(self.v) = N
          /\ WellFormedUtf8(self.v)
    /\ other # NoStr =>
          /\ Len(other.v) = other.N
          /\ WellFormedUtf8(other.v)
    /\ ret["from_iter"].tag = "Ok" =>
          /\ Len(ret["from_iter"].s.v) = N
          /\ WellFormedUtf8(ret["from_iter"].s.v)

\* A collected value with a multi-byte char, case-folded as often as allowed
\* and changed by it.
C1_Witness ==
    /\ input.kind = "chars"
    /\ ret["from_iter"].tag = "Ok"
    /\ folds = MaxFolds
    /\ self # NoStr
    /\ self # ret["from_iter"].s
    /\ HasMultiByte(self.v)

\* C2: from_utf8(b) is Ok exactly when b is well-formed UTF-8; otherwise it
\* is Err with the validation's error, whose valid_up_to is the length of
\* the longest well-formed prefix, and no Str comes to exist.
C2_FromUtf8OkIffValid ==
    (input.kind = "bytes" /\ ret["from_utf8"] # NoRet) =>
        LET r == ret["from_utf8"]
        IN /\ r.tag \in {"Ok", "Err"}
           /\ r.tag = "Ok" <=> WellFormedUtf8(input.v)
           /\ r.tag = "Err" =>
                 /\ r.e = run_utf8_validation(input.v)
                 /\ IsMaxValidPrefix(input.v, r.e.valid_up_to)
                 /\ r.e.valid_up_to < Len(input.v)
                 /\ self = NoStr

\* The array [0, 159, 146, 150] of the documentation, rejected.
C2_Witness ==
    /\ input.kind = "bytes"
    /\ input.v = <<0, 159, 146, 150>>
    /\ ret["from_utf8"].tag = "Err"

\* C3: for well-formed b, from_utf8(b) is Ok and as_bytes and into_bytes of
\* the (unmodified) result are b; and from_utf8 of what into_bytes returned
\* for any Str s is Ok(s).
C3_RoundTrip ==
    /\ (input.kind = "bytes" /\ ret["from_utf8"] # NoRet
          /\ WellFormedUtf8(input.v)) => ret["from_utf8"].tag = "Ok"
    /\ \A c \in {"as_bytes", "into_bytes"} :
          (input.kind = "bytes" /\ ret[c] # NoRet /\ ret[c].folds = 0)
              => ret[c].v = input.v
    /\ ret["from_utf8_into_bytes"] # NoRet =>
          ret["from_utf8_into_bytes"] = Ok(ret["into_bytes"].of)

\* Both directions done on an array with a multi-byte char.
C3_Witness ==
    /\ input.kind = "bytes"
    /\ HasMultiByte(input.v)
    /\ ret["as_bytes"] # NoRet
    /\ ret["as_bytes"].folds = 0
    /\ ret["into_bytes"] # NoRet
    /\ ret["from_utf8_into_bytes"].tag = "Ok"

\* C4: try_new(s) is Ok exactly when s is N bytes long; the Ok value holds
\* the bytes of s; the Err value is InvalidLength with expected = N and
\* actual = the byte length of s.
C4_TryNewLength ==
    (input.kind = "str" /\ ret["try_new"] # NoRet) =>
        LET r == ret["try_new"]
        IN /\ r.tag \in {"Ok", "Err"}
           /\ r.tag = "Ok" <=> Len(input.s) = N
           /\ r.tag = "Ok" => r.s.v = input.s /\ r.s.N = N
           /\ r.tag = "Err" =>
                 /\ r.e.expected = N
                 /\ r.e.actual = Len(input.s)
                 /\ self = NoStr

\* A slice one byte too long for Str<3>, refused with expected 3, actual 4.
C4_Witness ==
    /\ input.kind = "str"
    /\ N = 3
    /\ ret["try_new"].tag = "Err"
    /\ ret["try_new"].e = InvalidLength(3, 4)

\* C5: collecting a finite char sequence whose encoded lengths sum to N
\* gives TryStr::Ok holding the encodings of the chars, concatenated in
\* order; with N = 0 the empty sequence is such a sequence.
C5_CollectExactLength ==
    (input.kind = "chars" /\ ~input.cycle /\ EncodedLen(input.chars) = N
       /\ ret["from_iter"] # NoRet) =>
        /\ ret["from_iter"] = Ok([N |-> N, v |-> StrBytes(input.chars)])
        /\ pulled = input.chars

\* 'a' then U+20AC collected into a TryStr<4>.
C5_Witness ==
    /\ input.kind = "chars"
    /\ N = 4
    /\ input.chars = <<97, 8364>>
    /\ ret["from_iter"].tag = "Ok"
    /\ ret["from_iter"].s.v = <<97, 226, 130, 172>>

\* A char was taken from the iterator with the cursor below N and its
\* encoding reaching past N.
Overran ==
    /\ input.kind = "chars"
    /\ pulled # <<>>
    /\ EncodedLen(Front(pulled)) < N
    /\ EncodedLen(pulled) > N

\* C6: when the next char needs more bytes than are left before N, the
\* collection ends with TryStr::InvalidLength: it does not abort and writes
\* no part of the char.
C6_OverrunFailsCleanly ==
    Overran =>
        /\ ret["from_iter"] = TryStrInvalidLength
        /\ pc # "panicked"

C8_TooShortFails ==
    (input.kind = "chars" /\ ~input.cycle /\ EncodedLen(input.chars) < N
       /\ ret["from_iter"] # NoRet) =>
        /\ ret["from_iter"] = TryStrInvalidLength
        /\ self = NoStr
        /\ i = EncodedLen(input.chars)

\* U+00E9 alone offered to a TryStr<4>.
C8_Witness ==
    /\ input.kind = "chars"
    /\ ~input.cycle
    /\ N = 4
    /\ input.chars = <<233>>
    /\ i = 2
    /\ ret["from_iter"] = TryStrInvalidLength

\* C9: a == b exactly when the static lengths and the texts are equal (so
\* never across different lengths); partial_cmp(a, b) is the lexicographic
\* order of the texts whatever the lengths; and a == b exactly when
\* partial_cmp(a, b) is Equal.
C9_CrossLengthComparison ==
    /\ ret["eq"] # NoRet =>
          LET r == ret["eq"]
          IN /\ r.b <=> (r.lhs.N = r.rhs.N /\ r.lhs.v = r.rhs.v)
             /\ r.lhs.N # r.rhs.N => ~r.b
             /\ r.b <=> LexOrder(r.lhs.v, r.rhs.v) = "Equal"
    /\ ret["partial_cmp"] # NoRet =>
          LET r == ret["partial_cmp"]
          IN r.ord = LexOrder(r.lhs.v, r.rhs.v)
    /\ (ret["eq"] # NoRet /\ ret["partial_cmp"] # NoRet) =>
          (ret["eq"].b <=> ret["partial_cmp"].ord = "Equal")

\* A Str<1> that is a proper prefix of a Str<3>: unequal, and Less.
C9_Witness ==
    /\ ret["eq"] # NoRet
    /\ ret["partial_cmp"] # NoRet
    /\ self.N = 1
    /\ other.N = 3
    /\ other.v[1] = self.v[1]
    /\ ~ret["eq"].b
    /\ ret["partial_cmp"].ord = "Less"

\* C10: on well-formed bytes from_utf8_unchecked returns the Str that
\* from_utf8 returns as Ok, with debug assertions on and off; with debug
\* assertions on and bytes that are not well formed it panics and returns
\* no Str.
C10_UncheckedAgreesWithChecked ==
    (input.kind = "bytes" /\ ret["from_utf8_unchecked"] # NoRet) =>
        LET u == ret["from_utf8_unchecked"]
        IN /\ WellFormedUtf8(input.v) =>
                 /\ u = Ok([N |-> N, v |-> input.v])
                 /\ pc = "ready"
                 /\ ret["from_utf8"] # NoRet => u = ret["from_utf8"]
           /\ (debug_assertions /\ ~WellFormedUtf8(input.v)) =>
                 /\ u.tag = "panic"
                 /\ pc = "panicked"

\* Both constructors called on a multi-byte array in a build without debug
\* assertions.
C10_Witness ==
    /\ input.kind = "bytes"
    /\ ~debug_assertions
    /\ input.v = <<240, 159, 146, 150>>
    /\ ret["from_utf8"].tag = "Ok"
    /\ ret["from_utf8_unchecked"].tag = "Ok"

\* The panic of C10: debug assertions on, bytes not well formed.
C10_PanicReached ==
    /\ debug_assertions
    /\ input.kind = "bytes"
    /\ input.v = <<0, 159, 146, 150>>
    /\ ret["from_utf8_unchecked"].tag = "panic"

\* C11: into_result turns TryStr::Ok(s) into Ok(s), the same s, and
\* TryStr::InvalidLength into Err(InvalidLength) with expected = N and
\* actual = usize::MAX, whether the collection was too long or too short;
\* actual is never the number of bytes or chars the collection saw.
C11_IntoResult ==
    ret["into_result"] # NoRet =>
        LET t == ret["from_iter"]
            r == ret["into_result"]
        IN /\ t.tag \in {"Ok", "InvalidLength"}
           /\ t.tag = "Ok" => r = Ok(t.s)
           /\ t.tag = "InvalidLength" =>
                 /\ r.tag = "Err"
                 /\ r.e.expected = N
                 /\ r.e.actual = usize_MAX
                 /\ r.e.actual > EncodedLen(pulled)
                 /\ r.e.actual > Len(pulled)

\* A too-long collection (a char arrived at a full array) turned into Err.
C11_Witness ==
    /\ ret["into_result"].tag = "Err"
    /\ pulled # <<>>
    /\ EncodedLen(Front(pulled)) = N
    /\ N > 0

\* A too-short collection turned into Err.
C11_TooShortReached ==
    /\ ret["into_result"].tag = "Err"
    /\ ~input.cycle
    /\ pulled = input.chars
    /\ EncodedLen(pulled) < N
    /\ pulled # <<>>

\* A collected Str handed through unchanged.
C11_OkReached ==
    /\ ret["into_result"].tag = "Ok"
    /\ HasMultiByte(ret["into_result"].s.v)

\* The chars of pulled the loop body wrote: all of them, or all but the last
\* when the last one was refused (it arrived at a full array or did not fit).
Written == IF EncodedLen(pulled) <= N THEN pulled ELSE Front(pulled)

\* C12: during and after a collection the cursor i is within 0..N and is the
\* sum of the encoded lengths of the chars written so far; out holds their
\* encodings, each whole and in order, in [0, i), and is untouched (zero)
\* from i on, so no proper prefix of an encoding is ever in out.
C12_CursorAndWholeWrites ==
    (input.kind = "chars" /\ (pc = "from_iter" \/ ret["from_iter"] # NoRet)) =>
        /\ i >= 0
        /\ i <= N
        /\ Len(out) = N
        /\ i = EncodedLen(Written)
        /\ SubSeq(out, 1, i) = StrBytes(Written)
        /\ \A k \in (i + 1)..N : out[k] = 0
        /\ Len(pulled) - Len(Written) \in {0, 1}

\* The loop in mid-collection: U+00E9 then 'a' written into a TryStr<4>,
\* cursor at 3.
C12_Witness ==
    /\ input.kind = "chars"
    /\ pc = "from_iter"
    /\ N = 4
    /\ pulled = <<233, 97>>
    /\ i = 3
    /\ out = <<195, 169, 97, 0>>

\* A char that did not fit left out and the cursor as they were.
C12_RefusedReached ==
    /\ input.kind = "chars"
    /\ pc = "panicked"
    /\ pulled = <<97, 8364>>
    /\ N = 3
    /\ i = 1
    /\ out = <<97, 0, 0>>

\* C13: a collection into TryStr<N> ends, also on an iterator that never
\* ends: every char the loop keeps advances the cursor by at least one byte,
\* so the loop holds at most N chars while it runs and the call has taken at
\* most N + 1 chars from the iterator when it ends.
C13_CollectTerminates ==
    /\ [](pc = "from_iter" => (Len(pulled) <= i /\ i <= N))
    /\ [](Len(pulled) <= N + 1 /\ iter = Len(pulled))
    /\ (pc = "from_iter") ~> (pc # "from_iter")

\* 'a' cycled for ever into a TryStr<4>: the call ended at the fifth char.
C13_Witness ==
    /\ input.kind = "chars"
    /\ input.cycle
    /\ input.chars = <<97>>
    /\ N = 4
    /\ pc = "ready"
    /\ ret["from_iter"] = TryStrInvalidLength
    /\ Len(pulled) = N + 1
====
